---- MODULE Spec2Model ----
(***************************************************************************)
(* A model of adapters/fiona_dataset.py: read_fiona, the single pass over  *)
(* a feature stream, and the geometry helpers _force_geometry_2d and       *)
(* _fix_geometry.                                                          *)
(*                                                                         *)
(* Python dicts are functions over string keys; a key is in the dict iff   *)
(* it is in the DOMAIN.  The results of the libraries the module calls     *)
(* (fiona, shapely) and of the caller's filterer are inputs, drawn at the  *)
(* statement that obtains them, and an exception is one of the results.    *)
(***************************************************************************)
EXTENDS Integers, Sequences, FiniteSets, TLC

\* The longest feature stream that is explored.
MaxFeatures == 2

\* The largest number of coordinate tuples of a geometry given to
\* _force_geometry_2d in SpecGeom.
MaxCoords == 3

VARIABLES
    pc,                   \* the statement read_fiona is at
    filterer,             \* argument: "None" or a filterer object
    merge_on,             \* argument: "None", "" or a property name
    yielded,              \* number of features the source has yielded
    feature,              \* the loop variable of line 92
    transformed_geometry, \* local of line 101
    fixed_geometry,       \* local of line 102
    shapely_seen,         \* what shapely answered inside _fix_geometry
    collection,           \* the collection under construction
    skipped_count,
    failed_count,
    pre_merge_count,
    post_i,               \* position of the loop of line 124
    log,                  \* the records given to logging
    hist,                 \* per yielded feature: what happened to it
    merge_calls,          \* the calls made to merge_features
    del_count,            \* number of executions of line 126
    gpc,                  \* SpecGeom: phase
    geometry,             \* SpecGeom: the geometry given to _force_geometry_2d
    forced,               \* SpecGeom: _force_geometry_2d(geometry)
    forced_twice          \* SpecGeom: _force_geometry_2d of that result

vars == <<pc, filterer, merge_on, yielded, feature, transformed_geometry,
          fixed_geometry, shapely_seen, collection, skipped_count,
          failed_count, pre_merge_count, post_i, log, hist, merge_calls,
          del_count, gpc, geometry, forced, forced_twice>>

read_vars == <<pc, filterer, merge_on, yielded, feature, transformed_geometry,
               fixed_geometry, shapely_seen, collection, skipped_count,
               failed_count, pre_merge_count, post_i, log, hist, merge_calls,
               del_count>>

geom_vars == <<gpc, geometry, forced, forced_twice>>

----------------------------------------------------------------------------
\* Python dicts

Has(d, k) == k \in DOMAIN d

Put(d, k, v) == [x \in (DOMAIN d) \cup {k} |-> IF x = k THEN v ELSE d[x]]

Del(d, k) == [x \in (DOMAIN d) \ {k} |-> d[x]]

\* Mutant: "is not None" in place of truthiness.
Truthy_not_none(v) == v # "None"

\* Python truthiness of the merge_on argument (lines 105 and 119).
Truthy(v) == v \notin {"None", ""}

----------------------------------------------------------------------------
\* _force_geometry_2d and _force_linestring_2d on concrete coordinates.
\* A coordinate tuple is a sequence of numbers, c[:2] its first two.

Slice2(c) == SubSeq(c, 1, IF Len(c) < 2 THEN Len(c) ELSE 2)

_force_linestring_2d(linestring) ==
    [i \in DOMAIN linestring |-> Slice2(linestring[i])]

\* Mutant: MultiPoint left out of the list of line 28.
_force_geometry_2d_no_multipoint(g) ==
    IF g.type \in {"Polygon", "MultiLineString"}
    THEN [g EXCEPT !.coordinates =
            [i \in DOMAIN g.coordinates |-> _force_linestring_2d(g.coordinates[i])]]
    ELSE IF g.type \in {"LineString"}
    THEN [g EXCEPT !.coordinates = _force_linestring_2d(g.coordinates)]
    ELSE IF g.type = "Point"
    THEN [g EXCEPT !.coordinates = Slice2(g.coordinates)]
    ELSE IF g.type = "MultiPolygon"
    THEN [g EXCEPT !.coordinates =
            [i \in DOMAIN g.coordinates |->
                [j \in DOMAIN g.coordinates[i] |->
                    _force_linestring_2d(g.coordinates[i][j])]]]
    ELSE g

_force_geometry_2d(g) ==
    IF g.type \in {"Polygon", "MultiLineString"}
    THEN [g EXCEPT !.coordinates =
            [i \in DOMAIN g.coordinates |-> _force_linestring_2d(g.coordinates[i])]]
    ELSE IF g.type \in {"LineString", "MultiPoint"}
    THEN [g EXCEPT !.coordinates = _force_linestring_2d(g.coordinates)]
    ELSE IF g.type = "Point"
    THEN [g EXCEPT !.coordinates = Slice2(g.coordinates)]
    ELSE IF g.type = "MultiPolygon"
    THEN [g EXCEPT !.coordinates =
            [i \in DOMAIN g.coordinates |->
                [j \in DOMAIN g.coordinates[i] |->
                    _force_linestring_2d(g.coordinates[i][j])]]]
    ELSE g

----------------------------------------------------------------------------
\* Values

\* Python's None.
None == [py |-> "None"]

\* The value of the loop variable outside an iteration.
NoFeature == [idx |-> 0]

\* The locals of lines 101-102 outside an iteration.
NoGeometry == [type |-> "unset"]

\* shapely was not asked (yet), or buffer() was not called.
NotAsked == [asked |-> FALSE]

NotBuffered == [type |-> "unset", is_empty |-> TRUE, exterior |-> FALSE, geoms |-> 0]

\* The property values features are merged on.
MergeKeys == {"a", "b"}

\* What shapely_geometry.buffer(0.0) can give: a polygon or multipolygon with
\* content, or an empty geometry of one of the types shapely uses for it.  Of a
\* non-empty Polygon the exterior is a non-empty ring; a non-empty MultiPolygon
\* has members.
BufferResults ==
    { [type |-> "Polygon", is_empty |-> FALSE, exterior |-> TRUE, geoms |-> 0],
      [type |-> "Polygon", is_empty |-> TRUE, exterior |-> FALSE, geoms |-> 0],
      [type |-> "MultiPolygon", is_empty |-> FALSE, exterior |-> FALSE, geoms |-> 2],
      [type |-> "MultiPolygon", is_empty |-> TRUE, exterior |-> FALSE, geoms |-> 0],
      [type |-> "GeometryCollection", is_empty |-> TRUE, exterior |-> FALSE, geoms |-> 0] }

\* feature["properties"] as the source yields it.
RawProperties(i) == [origin |-> "source", of |-> i]

\* The geometry of the i-th feature of the source: a closed ring with z values,
\* in the coordinate reference system of the source.
SourceGeometry(i) ==
    [type |-> "Polygon",
     coordinates |-> << << <<i, 0, 9>>, <<i, 1, 9>>, <<i + 1, 0, 9>>, <<i, 0, 9>> >> >>,
     crs |-> "source.crs", via |-> "source", empty |-> FALSE, oriented |-> FALSE]

\* The i-th feature the source yields.  g says whether it has a geometry, a
\* geometry of None or no "geometry" key; carried whether it comes with a
\* top-level "original_properties" key of its own.
SourceFeature(i, g, carried) ==
    LET f0 == [idx |-> i, id |-> <<"source", i>>, properties |-> RawProperties(i)]
        f1 == IF g = "missing" THEN f0
              ELSE Put(f0, "geometry", IF g = "None" THEN None ELSE SourceGeometry(i))
    IN  IF carried THEN Put(f1, "original_properties", [origin |-> "carried", of |-> i])
        ELSE f1

----------------------------------------------------------------------------
\* The geometry steps

\* transformer = partial(transform_geom, source.crs, "EPSG:4326", ...): a new
\* geometry in EPSG:4326.
transformer(g) == [g EXCEPT !.crs = "EPSG:4326"]

\* shapely.geometry.mapping(buffered) inside _fix_geometry: the geometry
\* buffer(0.0) built from g.
mapping(g, buffered) ==
    [g EXCEPT !.type = buffered.type, !.via = "buffer", !.empty = buffered.is_empty]

\* Mutant: the buffered geometry is taken whatever it is.
_fix_geometry_any_buffer(g, is_valid, buffered) ==
    IF ~is_valid THEN mapping(g, buffered) ELSE g

\* _fix_geometry, given what shape(geometry).is_valid and .buffer(0.0) answer.
_fix_geometry(g, is_valid, buffered) ==
    IF ~is_valid
       /\ ~buffered.is_empty
       /\ \/ (buffered.type = "Polygon" /\ buffered.exterior)
          \/ (buffered.type = "MultiPolygon" /\ buffered.geoms > 0)
    THEN mapping(g, buffered)
    ELSE g

\* _force_geometry_ccw: polygons and the members of multipolygons are
\* oriented by shapely, any other geometry is returned as it is.
_force_geometry_ccw(g) ==
    IF g.type \in {"Polygon", "MultiPolygon"}
    THEN [g EXCEPT !.oriented = TRUE]
    ELSE g

----------------------------------------------------------------------------
\* Collaborators

\* get_transformed_properties(properties, prop_map) when it returns: a new
\* dict, with an "id" entry or without.
get_transformed_properties(props, has_id) ==
    LET p == [origin |-> "get_transformed_properties", of |-> props.of]
    IN  IF has_id THEN Put(p, "id", <<"mapped", props.of>>) ELSE p

get_area_acres(g) == [fn |-> "get_area_acres", of |-> g]

get_bbox_from_geojson_feature(f) == [fn |-> "get_bbox_from_geojson_feature", of |-> f]

get_bbox_from_geojson(c) == [fn |-> "get_bbox_from_geojson", of |-> c]

\* merge_features(collection, merge_on, properties_key): the features that
\* share feature[properties_key][merge_on] become one feature, at the place of
\* the first of them, with the geometries of all of them; the collection keeps
\* its other entries.  key_of[i] is the value feature i has under merge_on.
merge_features(c, key_of, properties_key) ==
    LET fs == c.features
        First(i) == \A j \in 1..(i - 1) : key_of[j] # key_of[i]
        Firsts == { i \in DOMAIN fs : First(i) }
        Rank(i) == Cardinality({ j \in Firsts : j <= i })
        Members(i) == { j \in DOMAIN fs : key_of[j] = key_of[i] }
        Merged(i) ==
            IF Members(i) = {i} THEN fs[i]
            ELSE [fs[i] EXCEPT !["geometry"] =
                    [type |-> "MultiPolygon",
                     coordinates |-> [fn |-> "union", of |-> { fs[j]["idx"] : j \in Members(i) }],
                     crs |-> "EPSG:4326", via |-> "merge", empty |-> FALSE,
                     oriented |-> FALSE]]
    IN  [c EXCEPT !.features =
            [r \in 1..Cardinality(Firsts) |->
                Merged(CHOOSE i \in Firsts : Rank(i) = r)]]

----------------------------------------------------------------------------
\* read_fiona

\* Line 84: [float("inf"), float("inf"), float("-inf"), float("-inf")].
InitialBbox == [fn |-> "float", of |-> <<"inf", "inf", "-inf", "-inf">>]

InitRead ==
    /\ pc = "loop"
    /\ filterer \in {"None", "filterer"}
    /\ merge_on \in {"None", "", "name"}
    /\ yielded = 0
    /\ feature = NoFeature
    /\ transformed_geometry = NoGeometry
    /\ fixed_geometry = NoGeometry
    /\ shapely_seen = NotAsked
    /\ collection = [type |-> "FeatureCollection", features |-> <<>>, bbox |-> InitialBbox]
    /\ skipped_count = 0
    /\ failed_count = 0
    /\ pre_merge_count = 0
    /\ post_i = 0
    /\ log = <<>>
    /\ hist = <<>>
    /\ merge_calls = <<>>
    /\ del_count = 0

IdleGeom ==
    /\ gpc = "idle"
    /\ geometry = NoGeometry
    /\ forced = NoGeometry
    /\ forced_twice = NoGeometry

Init == InitRead /\ IdleGeom

\* hist[yielded] with one more step, and its class changed when cls is given.
Note(step, cls) ==
    [hist EXCEPT ![yielded] =
        [@ EXCEPT !.steps = Append(@, step),
                  !.class = IF cls = "" THEN @ ELSE cls]]

\* The end of an iteration of the loop of line 92: the next one starts afresh.
EndIteration ==
    /\ pc' = "loop"
    /\ feature' = NoFeature
    /\ transformed_geometry' = NoGeometry
    /\ fixed_geometry' = NoGeometry
    /\ shapely_seen' = NotAsked

\* Mutant: the handler of line 114 logs and does not count.
ExceptException_no_count(step) ==
    /\ log' = Append(log, [level |-> "exception", msg |-> "Error processing feature",
                           idx |-> feature["idx"]])
    /\ hist' = Note(step, "failed")
    /\ EndIteration
    /\ UNCHANGED <<filterer, merge_on, yielded, collection, skipped_count, failed_count,
                   pre_merge_count, post_i, merge_calls, del_count>>

\* Lines 114-116: any exception of the try block but the mapping failure.
ExceptException(step) ==
    /\ log' = Append(log, [level |-> "exception", msg |-> "Error processing feature",
                           idx |-> feature["idx"]])
    /\ failed_count' = failed_count + 1
    /\ hist' = Note(step, "failed")
    /\ EndIteration
    /\ UNCHANGED <<filterer, merge_on, yielded, collection, skipped_count,
                   pre_merge_count, post_i, merge_calls, del_count>>

\* An exception outside the try block leaves read_fiona.
Propagate(step) ==
    /\ pc' = "raised"
    /\ hist' = Note(step, "raised")
    /\ UNCHANGED <<filterer, merge_on, yielded, feature, transformed_geometry,
                   fixed_geometry, shapely_seen, collection, skipped_count,
                   failed_count, pre_merge_count, post_i, log, merge_calls, del_count>>

\* Line 92: the source yields its next feature.
NextFeature ==
    /\ pc = "loop"
    /\ yielded < MaxFeatures
    /\ \E g \in {"missing", "None", "present"}, carried \in BOOLEAN :
          /\ feature' = SourceFeature(yielded + 1, g, carried)
          /\ hist' = Append(hist, [geometry |-> g, class |-> "pending", steps |-> <<>>,
                                   validity |-> "unknown"])
    /\ yielded' = yielded + 1
    /\ pc' = "filter"
    /\ UNCHANGED <<filterer, merge_on, transformed_geometry, fixed_geometry,
                   shapely_seen, collection, skipped_count, failed_count,
                   pre_merge_count, post_i, log, merge_calls, del_count>>

\* Line 92: the source is exhausted.
StopIteration ==
    /\ pc = "loop"
    /\ pc' = "count"
    /\ UNCHANGED <<filterer, merge_on, yielded, feature, transformed_geometry,
                   fixed_geometry, shapely_seen, collection, skipped_count,
                   failed_count, pre_merge_count, post_i, log, hist, merge_calls,
                   del_count>>

\* Mutant: the geometry check of line 96 comes before the filter.
Filter_after_geometry ==
    /\ pc = "filter"
    /\ IF Has(feature, "geometry") /\ feature["geometry"] = None
       THEN /\ log' = Append(log, [level |-> "error", msg |-> "empty geometry",
                                   idx |-> feature["idx"]])
            /\ failed_count' = failed_count + 1
            /\ hist' = Note("geometry", "failed")
            /\ EndIteration
            /\ UNCHANGED <<filterer, merge_on, yielded, collection, skipped_count,
                           pre_merge_count, post_i, merge_calls, del_count>>
       ELSE IF filterer = "None"
       THEN /\ pc' = "geomcheck"
            /\ UNCHANGED <<filterer, merge_on, yielded, feature, transformed_geometry,
                           fixed_geometry, shapely_seen, collection, skipped_count,
                           failed_count, pre_merge_count, post_i, log, hist,
                           merge_calls, del_count>>
       ELSE \E keep \in {"True", "False", "raises"} :
              CASE keep = "True" ->
                     /\ pc' = "geomcheck"
                     /\ hist' = Note("keep", "")
                     /\ UNCHANGED <<filterer, merge_on, yielded, feature,
                                    transformed_geometry, fixed_geometry, shapely_seen,
                                    collection, skipped_count, failed_count,
                                    pre_merge_count, post_i, log, merge_calls, del_count>>
                [] keep = "False" ->
                     /\ skipped_count' = skipped_count + 1
                     /\ hist' = Note("keep", "skipped")
                     /\ EndIteration
                     /\ UNCHANGED <<filterer, merge_on, yielded, collection, failed_count,
                                    pre_merge_count, post_i, log, merge_calls, del_count>>
                [] OTHER -> Propagate("keep")

\* Lines 93-95: filterer.keep(feature), when there is a filterer.
Filter ==
    /\ pc = "filter"
    /\ IF filterer = "None"
       THEN /\ pc' = "geomcheck"
            /\ UNCHANGED <<filterer, merge_on, yielded, feature, transformed_geometry,
                           fixed_geometry, shapely_seen, collection, skipped_count,
                           failed_count, pre_merge_count, post_i, log, hist,
                           merge_calls, del_count>>
       ELSE \E keep \in {"True", "False", "raises"} :
              CASE keep = "True" ->
                     /\ pc' = "geomcheck"
                     /\ hist' = Note("keep", "")
                     /\ UNCHANGED <<filterer, merge_on, yielded, feature,
                                    transformed_geometry, fixed_geometry, shapely_seen,
                                    collection, skipped_count, failed_count,
                                    pre_merge_count, post_i, log, merge_calls, del_count>>
                [] keep = "False" ->
                     /\ skipped_count' = skipped_count + 1
                     /\ hist' = Note("keep", "skipped")
                     /\ EndIteration
                     /\ UNCHANGED <<filterer, merge_on, yielded, collection, failed_count,
                                    pre_merge_count, post_i, log, merge_calls, del_count>>
                [] OTHER -> Propagate("keep")

\* Lines 96-99: the geometry is read; a feature without one is an error.
GeomCheck ==
    /\ pc = "geomcheck"
    /\ IF ~Has(feature, "geometry")
       THEN Propagate("geometry")
       ELSE IF feature["geometry"] = None
       THEN /\ log' = Append(log, [level |-> "error", msg |-> "empty geometry",
                                   idx |-> feature["idx"]])
            /\ failed_count' = failed_count + 1
            /\ hist' = Note("geometry", "failed")
            /\ EndIteration
            /\ UNCHANGED <<filterer, merge_on, yielded, collection, skipped_count,
                           pre_merge_count, post_i, merge_calls, del_count>>
       ELSE /\ pc' = "force2d"
            /\ hist' = Note("geometry", "")
            /\ UNCHANGED <<filterer, merge_on, yielded, feature, transformed_geometry,
                           fixed_geometry, shapely_seen, collection, skipped_count,
                           failed_count, pre_merge_count, post_i, log, merge_calls,
                           del_count>>

\* Line 101, inner call: _force_geometry_2d changes feature["geometry"] in
\* place.
Force2d ==
    /\ pc = "force2d"
    /\ \E raises \in BOOLEAN :
          IF raises THEN ExceptException("force2d")
          ELSE /\ feature' = [feature EXCEPT !["geometry"] = _force_geometry_2d(@)]
               /\ pc' = "transform"
               /\ hist' = Note("force2d", "")
               /\ UNCHANGED <<filterer, merge_on, yielded, transformed_geometry,
                              fixed_geometry, shapely_seen, collection, skipped_count,
                              failed_count, pre_merge_count, post_i, log, merge_calls,
                              del_count>>

\* Line 101, outer call: the reprojection.
Transform ==
    /\ pc = "transform"
    /\ \E raises \in BOOLEAN :
          IF raises THEN ExceptException("transform")
          ELSE /\ transformed_geometry' = transformer(feature["geometry"])
               /\ pc' = "fix"
               /\ hist' = Note("transform", "")
               /\ UNCHANGED <<filterer, merge_on, yielded, feature, fixed_geometry,
                              shapely_seen, collection, skipped_count, failed_count,
                              pre_merge_count, post_i, log, merge_calls, del_count>>

\* Line 102: _fix_geometry; shapely says whether the geometry is valid and,
\* when it is not, what buffer(0.0) makes of it.
Fix ==
    /\ pc = "fix"
    /\ \/ ExceptException("fix")
       \/ \E is_valid \in BOOLEAN :
          \E buffered \in (IF is_valid THEN {NotBuffered} ELSE BufferResults) :
             /\ shapely_seen' = [asked |-> TRUE, is_valid |-> is_valid, buffered |-> buffered]
             /\ fixed_geometry' = _fix_geometry(transformed_geometry, is_valid, buffered)
             /\ pc' = "ccw"
             /\ hist' = Note("fix", "")
             /\ UNCHANGED <<filterer, merge_on, yielded, feature, transformed_geometry,
                            collection, skipped_count, failed_count, pre_merge_count,
                            post_i, log, merge_calls, del_count>>

\* Line 103: the oriented geometry becomes the feature's geometry.
Ccw ==
    /\ pc = "ccw"
    /\ \E raises \in BOOLEAN :
          IF raises THEN ExceptException("ccw")
          ELSE /\ feature' = [feature EXCEPT !["geometry"] = _force_geometry_ccw(fixed_geometry)]
               /\ pc' = "original"
               /\ hist' = Note("ccw", "")
               /\ UNCHANGED <<filterer, merge_on, yielded, transformed_geometry,
                              fixed_geometry, shapely_seen, collection, skipped_count,
                              failed_count, pre_merge_count, post_i, log, merge_calls,
                              del_count>>

\* Lines 105-106: the properties are set aside for the merge.
Original ==
    /\ pc = "original"
    /\ feature' = IF Truthy(merge_on)
                  THEN Put(feature, "original_properties", feature["properties"])
                  ELSE feature
    /\ pc' = "props"
    /\ hist' = Note("original", "")
    /\ UNCHANGED <<filterer, merge_on, yielded, transformed_geometry, fixed_geometry,
                   shapely_seen, collection, skipped_count, failed_count,
                   pre_merge_count, post_i, log, merge_calls, del_count>>

\* Lines 107-113: get_transformed_properties returns and the feature is
\* appended, or it raises.
Props ==
    /\ pc = "props"
    /\ \E result \in {"dict", "dict with id", "PropertyMappingFailedException", "Exception"} :
          CASE result \in {"dict", "dict with id"} ->
                 LET f == Put(feature, "properties",
                              get_transformed_properties(feature["properties"],
                                                         result = "dict with id"))
                 IN  /\ collection' = [collection EXCEPT !.features = Append(@, f)]
                     /\ hist' = [Note("properties", "kept") EXCEPT ![yielded] =
                                  [@ EXCEPT !.steps = Append(@, "append"),
                                            !.validity = IF shapely_seen.is_valid
                                                         THEN "valid" ELSE "invalid"]]
                     /\ EndIteration
                     /\ UNCHANGED <<filterer, merge_on, yielded, skipped_count, failed_count,
                                    pre_merge_count, post_i, log, merge_calls, del_count>>
            [] result = "PropertyMappingFailedException" ->
                 /\ log' = Append(log, [level |-> "error", msg |-> "PropertyMappingFailed",
                                        idx |-> feature["idx"]])
                 /\ failed_count' = failed_count + 1
                 /\ hist' = Note("properties", "failed")
                 /\ EndIteration
                 /\ UNCHANGED <<filterer, merge_on, yielded, collection, skipped_count,
                                pre_merge_count, post_i, merge_calls, del_count>>
            [] OTHER -> ExceptException("properties")

\* Line 118.
Count ==
    /\ pc = "count"
    /\ pre_merge_count' = Len(collection.features)
    /\ pc' = IF Truthy(merge_on) THEN "merge" ELSE "post"
    /\ post_i' = 1
    /\ UNCHANGED <<filterer, merge_on, yielded, feature, transformed_geometry,
                   fixed_geometry, shapely_seen, collection, skipped_count,
                   failed_count, log, hist, merge_calls, del_count>>

\* Lines 119-122: the features are merged on what they have under merge_on.
Merge ==
    /\ pc = "merge"
    /\ \E key_of \in [DOMAIN collection.features -> MergeKeys] :
          collection' = merge_features(collection, key_of, "original_properties")
    /\ merge_calls' = Append(merge_calls,
                             [collection |-> collection, merge_on |-> merge_on,
                              properties_key |-> "original_properties", at |-> yielded])
    /\ pc' = "post"
    /\ UNCHANGED <<filterer, merge_on, yielded, feature, transformed_geometry,
                   fixed_geometry, shapely_seen, skipped_count, failed_count,
                   pre_merge_count, post_i, log, hist, del_count>>

\* Mutant: line 130 is missing, the feature keeps the id it had.
PostFeature_no_id(f) ==
    LET f1 == IF Has(f, "original_properties") THEN Del(f, "original_properties") ELSE f
        f2 == [f1 EXCEPT !["properties"] = Put(@, "acres", get_area_acres(f1["geometry"]))]
    IN  Put(f2, "bbox", get_bbox_from_geojson_feature(f2))

\* Mutant: "original_properties" is deleted only when a merge was asked for.
PostFeature_del_on_merge(f) ==
    LET f1 == IF Truthy(merge_on) /\ Has(f, "original_properties")
              THEN Del(f, "original_properties") ELSE f
        f2 == [f1 EXCEPT !["properties"] = Put(@, "acres", get_area_acres(f1["geometry"]))]
        f3 == Put(f2, "bbox", get_bbox_from_geojson_feature(f2))
    IN  IF Has(f3["properties"], "id") THEN Put(f3, "id", f3["properties"]["id"]) ELSE f3

\* Lines 125-130 for one feature f of the collection.
PostFeature(f) ==
    LET f1 == IF Has(f, "original_properties") THEN Del(f, "original_properties") ELSE f
        f2 == [f1 EXCEPT !["properties"] = Put(@, "acres", get_area_acres(f1["geometry"]))]
        f3 == Put(f2, "bbox", get_bbox_from_geojson_feature(f2))
    IN  IF Has(f3["properties"], "id") THEN Put(f3, "id", f3["properties"]["id"]) ELSE f3

\* Lines 124-130: one iteration of the loop over the collected features.
Post ==
    /\ pc = "post"
    /\ post_i <= Len(collection.features)
    /\ collection' = [collection EXCEPT !.features[post_i] = PostFeature(@)]
    /\ del_count' = IF Has(collection.features[post_i], "original_properties")
                    THEN del_count + 1 ELSE del_count
    /\ post_i' = post_i + 1
    /\ UNCHANGED <<pc, filterer, merge_on, yielded, feature, transformed_geometry,
                   fixed_geometry, shapely_seen, skipped_count, failed_count,
                   pre_merge_count, log, hist, merge_calls>>

\* Mutant: the bounding box is computed of an empty collection too.
with_bbox_always(c) == [c EXCEPT !.bbox = get_bbox_from_geojson(c)]

\* Lines 132-133: the bounding box of a collection that has features.
with_bbox(c) ==
    IF Len(c.features) > 0
    THEN [c EXCEPT !.bbox = get_bbox_from_geojson(c)]
    ELSE c

\* Lines 132-133, after the loop of line 124.
CollectionBbox ==
    /\ pc = "post"
    /\ post_i > Len(collection.features)
    /\ collection' = with_bbox(collection)
    /\ pc' = "log"
    /\ UNCHANGED <<filterer, merge_on, yielded, feature, transformed_geometry,
                   fixed_geometry, shapely_seen, skipped_count, failed_count,
                   pre_merge_count, post_i, log, hist, merge_calls, del_count>>

\* Mutant: "kept" is logged as the number of features after the merge.
counts_record_after_merge(skipped, kept, failed, c) ==
    [level |-> "info", skipped |-> skipped, kept |-> Len(c.features),
     merged |-> kept - Len(c.features), errored |-> failed]

\* Lines 135-143: the record of the four counts.
counts_record(skipped, kept, failed, c) ==
    [level |-> "info", skipped |-> skipped, kept |-> kept,
     merged |-> kept - Len(c.features), errored |-> failed]

\* Lines 135-145: the counts are logged and the collection is returned.
LogCounts ==
    /\ pc = "log"
    /\ log' = Append(log, counts_record(skipped_count, pre_merge_count, failed_count, collection))
    /\ pc' = "done"
    /\ UNCHANGED <<filterer, merge_on, yielded, feature, transformed_geometry,
                   fixed_geometry, shapely_seen, collection, skipped_count,
                   failed_count, pre_merge_count, post_i, hist, merge_calls, del_count>>

Next ==
    \/ (NextFeature /\ UNCHANGED geom_vars)
    \/ (StopIteration /\ UNCHANGED geom_vars)
    \/ (Filter /\ UNCHANGED geom_vars)
    \/ (GeomCheck /\ UNCHANGED geom_vars)
    \/ (Force2d /\ UNCHANGED geom_vars)
    \/ (Transform /\ UNCHANGED geom_vars)
    \/ (Fix /\ UNCHANGED geom_vars)
    \/ (Ccw /\ UNCHANGED geom_vars)
    \/ (Original /\ UNCHANGED geom_vars)
    \/ (Props /\ UNCHANGED geom_vars)
    \/ (Count /\ UNCHANGED geom_vars)
    \/ (Merge /\ UNCHANGED geom_vars)
    \/ (Post /\ UNCHANGED geom_vars)
    \/ (CollectionBbox /\ UNCHANGED geom_vars)
    \/ (LogCounts /\ UNCHANGED geom_vars)

Spec == Init /\ [][Next]_vars

----------------------------------------------------------------------------
\* _force_geometry_2d on its own: a geometry is put together one coordinate
\* tuple at a time, then forced to 2D, then forced again.

\* Tuples of 2, 3 and 4 components (x y, x y z, x y z m).
CoordTuples == { <<1, 2>>, <<3, 4, 5>>, <<6, 7, 8, 9>> }

GeometryTypes ==
    {"Point", "MultiPoint", "LineString", "MultiLineString", "Polygon",
     "MultiPolygon", "GeometryCollection"}

\* How deep the coordinate tuples of a geometry of type t are nested.  The
\* content of a GeometryCollection is not coordinates; _force_geometry_2d
\* never looks at it, and a list of tuples stands for it.
Depth(t) ==
    CASE t = "Point" -> 0
      [] t \in {"MultiPoint", "LineString", "GeometryCollection"} -> 1
      [] t \in {"MultiLineString", "Polygon"} -> 2
      [] OTHER -> 3

RECURSIVE Concat(_)
Concat(ss) == IF ss = <<>> THEN <<>> ELSE Head(ss) \o Concat(Tail(ss))

\* The coordinate tuples of g, in their order.
Tuples(g) ==
    CASE Depth(g.type) = 0 -> IF g.coordinates = <<>> THEN <<>> ELSE <<g.coordinates>>
      [] Depth(g.type) = 1 -> g.coordinates
      [] Depth(g.type) = 2 -> Concat(g.coordinates)
      [] OTHER -> Concat([i \in DOMAIN g.coordinates |-> Concat(g.coordinates[i])])

InitGeom ==
    /\ pc = "idle"
    /\ filterer = "None"
    /\ merge_on = "None"
    /\ yielded = 0
    /\ feature = NoFeature
    /\ transformed_geometry = NoGeometry
    /\ fixed_geometry = NoGeometry
    /\ shapely_seen = NotAsked
    /\ collection = [type |-> "FeatureCollection", features |-> <<>>, bbox |-> InitialBbox]
    /\ skipped_count = 0
    /\ failed_count = 0
    /\ pre_merge_count = 0
    /\ post_i = 0
    /\ log = <<>>
    /\ hist = <<>>
    /\ merge_calls = <<>>
    /\ del_count = 0
    /\ gpc = "build"
    /\ geometry \in [type : GeometryTypes, coordinates : {<<>>}]
    /\ forced = NoGeometry
    /\ forced_twice = NoGeometry

\* One more coordinate tuple at the end of the last list of tuples.
AddCoord ==
    /\ gpc = "build"
    /\ Len(Tuples(geometry)) < MaxCoords
    /\ \E c \in CoordTuples :
          LET d  == Depth(geometry.type)
              cs == geometry.coordinates
              n  == Len(cs)
          IN  /\ d = 0 => cs = <<>>
              /\ d >= 2 => n > 0
              /\ geometry' =
                   [geometry EXCEPT !.coordinates =
                      CASE d = 0 -> c
                        [] d = 1 -> Append(cs, c)
                        [] d = 2 -> [cs EXCEPT ![n] = Append(@, c)]
                        [] OTHER -> [cs EXCEPT ![n][Len(cs[n])] = Append(@, c)]]
    /\ UNCHANGED <<gpc, forced, forced_twice>>

\* A new line or ring, of one tuple, after the last one.
AddLine ==
    /\ gpc = "build"
    /\ Len(Tuples(geometry)) < MaxCoords
    /\ \E c \in CoordTuples :
          LET d  == Depth(geometry.type)
              cs == geometry.coordinates
              n  == Len(cs)
          IN  /\ d >= 2
              /\ d = 3 => n > 0
              /\ geometry' =
                   [geometry EXCEPT !.coordinates =
                      IF d = 2 THEN Append(cs, <<c>>)
                      ELSE [cs EXCEPT ![n] = Append(@, <<c>>)]]
    /\ UNCHANGED <<gpc, forced, forced_twice>>

\* A new polygon, of one ring of one tuple, after the last one.
AddPolygon ==
    /\ gpc = "build"
    /\ Len(Tuples(geometry)) < MaxCoords
    /\ Depth(geometry.type) = 3
    /\ \E c \in CoordTuples :
          geometry' = [geometry EXCEPT !.coordinates = Append(@, << <<c>> >>)]
    /\ UNCHANGED <<gpc, forced, forced_twice>>

\* _force_geometry_2d(geometry).
ApplyForce2d ==
    /\ gpc = "build"
    /\ forced' = _force_geometry_2d(geometry)
    /\ gpc' = "forced"
    /\ UNCHANGED <<geometry, forced_twice>>

\* _force_geometry_2d of the result.
ApplyForce2dAgain ==
    /\ gpc = "forced"
    /\ forced_twice' = _force_geometry_2d(forced)
    /\ gpc' = "twice"
    /\ UNCHANGED <<geometry, forced>>

NextGeom ==
    \/ (AddCoord /\ UNCHANGED read_vars)
    \/ (AddLine /\ UNCHANGED read_vars)
    \/ (AddPolygon /\ UNCHANGED read_vars)
    \/ (ApplyForce2d /\ UNCHANGED read_vars)
    \/ (ApplyForce2dAgain /\ UNCHANGED read_vars)

SpecGeom == InitGeom /\ [][NextGeom]_vars

----------------------------------------------------------------------------
\* C9: _force_geometry_2d gives a geometry of the same type; for the six
\* coordinate types it has as many coordinate tuples as its argument, in the
\* same order, each cut to the first two components of the original; a
\* geometry of any other type comes back unchanged; and forcing the result
\* again changes nothing.
Min2(n) == IF n < 2 THEN n ELSE 2

Force2dKeepsFirstTwo ==
    gpc \in {"forced", "twice"} =>
        /\ forced.type = geometry.type
        /\ IF geometry.type = "GeometryCollection"
           THEN forced = geometry
           ELSE LET a == Tuples(geometry)
                    b == Tuples(forced)
                IN  /\ Len(b) = Len(a)
                    /\ \A i \in DOMAIN a :
                          /\ Len(b[i]) <= 2
                          /\ Len(b[i]) = Min2(Len(a[i]))
                          /\ \A k \in DOMAIN b[i] : b[i][k] = a[i][k]
        /\ gpc = "twice" => forced_twice = forced

\* A multipolygon of two polygons, with a tuple of more than two components,
\* has been forced twice.
Force2dWitness ==
    /\ gpc = "twice"
    /\ geometry.type = "MultiPolygon"
    /\ Len(geometry.coordinates) = 2
    /\ \E i \in DOMAIN Tuples(geometry) : Len(Tuples(geometry)[i]) > 2

----------------------------------------------------------------------------
\* Properties of read_fiona

\* The positions of the yielded features that ended in class c.
InClass(c) == { i \in DOMAIN hist : hist[i].class = c }

\* The log records about a failing feature.
FailureRecords == { k \in DOMAIN log : log[k].level \in {"error", "exception"} }

\* The collected features are those of the source, not yet merged.
Unmerged == merge_calls = <<>>

IsPrefix(a, b) == Len(a) <= Len(b) /\ \A k \in DOMAIN a : a[k] = b[k]

\* The steps of one iteration, in the order claimed.
StepOrder ==
    <<"keep", "geometry", "force2d", "transform", "fix", "ccw", "original",
      "properties", "append">>

\* C1: read_fiona never leaves by an exception, whatever a feature does.
NeverAborts == pc # "raised"

\* C2: every feature that failed (geometry None, mapping failure, other
\* exception in the try block) counts once in failed_count and has one log
\* record, and is not among the collected features.
FailuresCountedAndDropped ==
    /\ failed_count = Cardinality(InClass("failed"))
    /\ Cardinality(FailureRecords) = failed_count
    /\ \A i \in InClass("failed") :
          Cardinality({ k \in FailureRecords : log[k].idx = i }) = 1
    /\ Unmerged =>
          \A j \in DOMAIN collection.features :
             collection.features[j]["idx"] \notin InClass("failed")

\* A feature failed, a later one was kept, and the collection was returned
\* without a merge.
FailureThenKeptWitness ==
    /\ pc = "done"
    /\ Unmerged
    /\ Len(hist) = 2
    /\ hist[1].class = "failed"
    /\ hist[2].class = "kept"
    /\ Len(collection.features) = 1

\* C3: at the end every yielded feature is in one of the classes skipped,
\* kept and failed, the three counts are the sizes of the classes and add up
\* to the number of features yielded, and the logged record gives them with
\* merged = kept minus the number of returned features.
CountsAddUp ==
    pc = "done" =>
        LET r == log[Len(log)]
        IN  /\ \A i \in DOMAIN hist : hist[i].class \in {"skipped", "kept", "failed"}
            /\ Len(hist) = yielded
            /\ skipped_count = Cardinality(InClass("skipped"))
            /\ pre_merge_count = Cardinality(InClass("kept"))
            /\ failed_count = Cardinality(InClass("failed"))
            /\ skipped_count + pre_merge_count + failed_count = yielded
            /\ r.level = "info"
            /\ r.skipped = skipped_count
            /\ r.kept = pre_merge_count
            /\ r.errored = failed_count
            /\ r.merged = pre_merge_count - Len(collection.features)

\* Two features were kept and merged into one, and the counts were logged.
CountsWitness ==
    /\ pc = "done"
    /\ yielded = 2
    /\ pre_merge_count = 2
    /\ Len(collection.features) = 1
    /\ log[Len(log)].merged = 1

\* C4: every returned feature has its acres, from get_area_acres of its
\* geometry, and a bbox, from get_bbox_from_geojson_feature of the feature,
\* and its id is that of its properties when they have one.
ComputedFields ==
    pc = "done" =>
        \A j \in DOMAIN collection.features :
           LET f == collection.features[j]
           IN  /\ Has(f["properties"], "acres")
               /\ f["properties"]["acres"] = get_area_acres(f["geometry"])
               /\ Has(f, "bbox")
               /\ f["bbox"].fn = "get_bbox_from_geojson_feature"
               /\ f["bbox"].of["idx"] = f["idx"]
               /\ f["bbox"].of["geometry"] = f["geometry"]
               /\ Has(f["properties"], "id") => f["id"] = f["properties"]["id"]

\* A merged feature with an id among its properties was returned.
ComputedFieldsWitness ==
    /\ pc = "done"
    /\ Truthy(merge_on)
    /\ pre_merge_count = 2
    /\ Len(collection.features) = 1
    /\ Has(collection.features[1]["properties"], "id")

\* C5: with merge_on None or otherwise falsy, merge_features is never called,
\* read_fiona puts no "original_properties" on a feature, the returned
\* features are the kept ones in the order of the source, and the logged merged
\* count is 0; with merge_on set, merge_features is called once, when the
\* source is exhausted, with properties_key = "original_properties".
MergeIsOptional ==
    IF merge_on \in {"None", ""}
    THEN /\ merge_calls = <<>>
         /\ Has(feature, "original_properties") =>
               feature["original_properties"].origin = "carried"
         /\ \A j \in DOMAIN collection.features :
               Has(collection.features[j], "original_properties") =>
                  collection.features[j]["original_properties"].origin = "carried"
         /\ pc = "done" =>
               /\ Len(collection.features) = Cardinality(InClass("kept"))
               /\ \A j \in DOMAIN collection.features :
                     /\ collection.features[j]["idx"] \in InClass("kept")
                     /\ \A k \in DOMAIN collection.features :
                           j < k => collection.features[j]["idx"] < collection.features[k]["idx"]
               /\ log[Len(log)].merged = 0
    ELSE /\ Len(merge_calls) <= 1
         /\ merge_calls # <<>> =>
               /\ pc \in {"post", "log", "done"}
               /\ merge_calls[1].at = yielded
               /\ InClass("pending") = {}
               /\ merge_calls[1].properties_key = "original_properties"
               /\ merge_calls[1].merge_on = merge_on
         /\ pc \in {"post", "log", "done"} => Len(merge_calls) = 1

\* The empty string was given as merge_on and two features were returned.
MergeIsOptionalWitness ==
    /\ pc = "done"
    /\ merge_on = ""
    /\ Len(collection.features) = 2

StepsInOrder ==
    /\ skipped_count = Cardinality(InClass("skipped"))
    /\ pc = "transform" =>
          /\ feature["geometry"].crs = "source.crs"
          /\ \A k \in DOMAIN Tuples(feature["geometry"]) :
                Len(Tuples(feature["geometry"])[k]) <= 2
    /\ pc = "fix" =>
          /\ transformed_geometry.crs = "EPSG:4326"
          /\ \A k \in DOMAIN Tuples(transformed_geometry) :
                Len(Tuples(transformed_geometry)[k]) <= 2
          /\ shapely_seen = NotAsked
    /\ pc = "ccw" => ~fixed_geometry.oriented
    /\ pc \in {"original", "props"} =>
          /\ feature["geometry"].oriented
          /\ feature["geometry"].crs = "EPSG:4326"
          /\ feature["properties"] = RawProperties(feature["idx"])
    /\ \A i \in DOMAIN hist :
          LET steps == hist[i].steps
          IN  /\ IF filterer = "None"
                 THEN IsPrefix(steps, Tail(StepOrder))
                 ELSE IsPrefix(steps, StepOrder)
              /\ hist[i].class = "skipped" <=>
                    (steps = <<"keep">> /\ hist[i].class \notin {"pending", "raised"})
              /\ hist[i].class = "kept" <=> (Len(steps) > 0 /\ steps[Len(steps)] = "append")
              /\ (hist[i].class = "failed"
                  /\ steps[Len(steps)] \in {"force2d", "transform", "fix", "ccw"})
                    => \A k \in DOMAIN steps : steps[k] # "properties"

\* A feature without a geometry was rejected by the filterer and skipped, and
\* the reprojection of the next feature raised.
StepsWitness ==
    /\ pc = "done"
    /\ Len(hist) = 2
    /\ hist[1].geometry = "None"
    /\ hist[1].class = "skipped"
    /\ skipped_count = 1
    /\ hist[2].class = "failed"
    /\ hist[2].steps = <<"keep", "geometry", "force2d", "transform">>

FixGeometryCases ==
    pc = "ccw" =>
        LET b == shapely_seen.buffered
            usable == /\ ~b.is_empty
                      /\ \/ (b.type = "Polygon" /\ b.exterior)
                         \/ (b.type = "MultiPolygon" /\ b.geoms > 0)
        IN  /\ IF shapely_seen.is_valid \/ ~usable
               THEN fixed_geometry = transformed_geometry
               ELSE /\ fixed_geometry.via = "buffer"
                    /\ fixed_geometry.type = b.type
                    /\ fixed_geometry # transformed_geometry
            /\ ~fixed_geometry.empty
            /\ hist[yielded].class = "pending"
            /\ failed_count = Cardinality(InClass("failed"))

\* A feature whose geometry was invalid and could not be repaired was returned
\* with that geometry, oriented.
UnrepairedKeptWitness ==
    /\ pc = "done"
    /\ Unmerged
    /\ \E j \in DOMAIN collection.features :
          LET f == collection.features[j]
          IN  /\ hist[f["idx"]].validity = "invalid"
              /\ f["geometry"].via = "source"
              /\ f["geometry"].oriented

====
